---- MODULE Spec2Model ----
(***************************************************************************)
(* Model of BcDataCatalogueApisProvider.run(): the page-fetch loop, the    *)
(* structural validation and business filter of the fetched packages, the  *)
(* aggregation into users, groups, systems, components and APIs, the API   *)
(* name collision resolution and the final full-replace mutation.          *)
(*                                                                         *)
(* Texts are TLA+ strings; a character is a string of length one.          *)
(***************************************************************************)
EXTENDS Integers, Sequences, FiniteSets, TLC

(***************************************************************************)
(* Text primitives (the JavaScript String methods the provider uses).      *)
(***************************************************************************)
Ch(s, i) == SubSeq(s, i, i)

LowerLetters == "abcdefghijklmnopqrstuvwxyz"

UpperLetters == "ABCDEFGHIJKLMNOPQRSTUVWXYZ"

DigitChars == "0123456789"

CharsOf(s) == {Ch(s, i) : i \in 1..Len(s)}

LowerSet == CharsOf(LowerLetters)

UpperSet == CharsOf(UpperLetters)

DigitSet == CharsOf(DigitChars)

LowerAlnumSet == LowerSet \cup DigitSet

WordSet == LowerSet \cup UpperSet \cup DigitSet \cup {"_"}

IsDigit(c) == c \in DigitSet

IsLowerAlnum(c) == c \in LowerAlnumSet

\* \w of the regular expressions: [A-Za-z0-9_]
IsWordChar(c) == c \in WordSet

\* the class [-_.] of the trimming expressions
IsTrimChar(c) == c \in {"-", "_", "."}

LowerMap == [c \in UpperSet |-> Ch(LowerLetters, CHOOSE i \in 1..26 : Ch(UpperLetters, i) = c)]

LowerOf(c) == IF c \in UpperSet THEN LowerMap[c] ELSE c

RECURSIVE LowerString(_)
LowerString(s) ==
    IF s = "" THEN "" ELSE LowerOf(Ch(s, 1)) \o LowerString(SubSeq(s, 2, Len(s)))

\* String.prototype.toLowerCase
toLowerCase(s) == LowerString(s)

\* String.prototype.slice(0, n): a negative n counts from the end.
SliceTo(s, n) ==
    LET e == IF n < 0 THEN (IF Len(s) + n < 0 THEN 0 ELSE Len(s) + n)
             ELSE (IF n > Len(s) THEN Len(s) ELSE n)
    IN  SubSeq(s, 1, e)

\* replace(/[^a-z0-9]+/g, '-'): every maximal run outside [a-z0-9] becomes one '-'
RECURSIVE CollapseNonAlnum(_)
CollapseNonAlnum(s) ==
    IF s = "" THEN ""
    ELSE IF IsLowerAlnum(Ch(s, 1)) THEN Ch(s, 1) \o CollapseNonAlnum(SubSeq(s, 2, Len(s)))
    ELSE IF Len(s) >= 2 /\ ~IsLowerAlnum(Ch(s, 2)) THEN CollapseNonAlnum(SubSeq(s, 2, Len(s)))
    ELSE "-" \o CollapseNonAlnum(SubSeq(s, 2, Len(s)))

\* variant: nothing is stripped at the front
TrimLeadingOmitted(s) == s

\* replace(/^[-_.]+/, '')
RECURSIVE TrimLeading(_)
TrimLeading(s) ==
    IF s # "" /\ IsTrimChar(Ch(s, 1)) THEN TrimLeading(SubSeq(s, 2, Len(s))) ELSE s

\* replace(/[-_.]+$/, '')
RECURSIVE TrimTrailing(_)
TrimTrailing(s) ==
    IF s # "" /\ IsTrimChar(Ch(s, Len(s))) THEN TrimTrailing(SubSeq(s, 1, Len(s) - 1)) ELSE s

\* the length limit of a safe name
MaxNameLen == 63

\* variant: the text is cut to the length limit and left as cut
toSafeNameCutLast(name) ==
    SliceTo(TrimLeading(TrimTrailing(CollapseNonAlnum(toLowerCase(name)))), MaxNameLen)

toSafeName(name) ==
    TrimTrailing(SliceTo(TrimLeading(TrimTrailing(CollapseNonAlnum(toLowerCase(name)))),
                         MaxNameLen))

getSystemId(name) == "system:default/" \o toSafeName(name)

\* variant: the host name is used as it is
getGroupIdRaw(hostName) == "group:default/" \o hostName

getGroupId(hostName) == "group:default/" \o toSafeName(hostName)

getUserId(email) == "user:default/" \o toLowerCase(email)

getComponentId(name) == "component:default/" \o toLowerCase(name)

getApiId(name) == "api:default/" \o toLowerCase(name)

(***************************************************************************)
(* getEmailHostname: email.trim().toLowerCase().match(/@([\w.-]+)/).       *)
(* The result is [found, host]; found = FALSE stands for undefined.        *)
(***************************************************************************)
RECURSIVE TrimSpaces(_)
TrimSpaces(s) ==
    IF s # "" /\ Ch(s, 1) = " " THEN TrimSpaces(SubSeq(s, 2, Len(s)))
    ELSE IF s # "" /\ Ch(s, Len(s)) = " " THEN TrimSpaces(SubSeq(s, 1, Len(s) - 1))
    ELSE s

IsHostChar(c) == IsWordChar(c) \/ c \in {".", "-"}

\* the end of the maximal run of [\w.-] that starts at i (i - 1 when it is empty)
RECURSIVE HostRunEnd(_, _)
HostRunEnd(s, i) ==
    IF i <= Len(s) /\ IsHostChar(Ch(s, i)) THEN HostRunEnd(s, i + 1) ELSE i - 1

\* the end of the maximal run of digits that starts at i (i - 1 when it is empty)
RECURSIVE DigitRunEnd(_, _)
DigitRunEnd(s, i) ==
    IF i <= Len(s) /\ IsDigit(Ch(s, i)) THEN DigitRunEnd(s, i + 1) ELSE i - 1

getEmailHostname(email) ==
    LET e == toLowerCase(TrimSpaces(email))
        At == {i \in 1..Len(e) : Ch(e, i) = "@" /\ i < Len(e) /\ IsHostChar(Ch(e, i + 1))}
    IN  IF At = {} THEN [found |-> FALSE, host |-> ""]
        ELSE LET i == CHOOSE j \in At : \A k \in At : j <= k
             IN  [found |-> TRUE, host |-> SubSeq(e, i + 1, HostRunEnd(e, i + 1))]

(***************************************************************************)
(* extractDistinguishingSuffix and the regular expressions it applies.     *)
(***************************************************************************)
WordAt(s, i) == i \in 1..Len(s) /\ IsWordChar(Ch(s, i))

\* \b between the characters i - 1 and i
Boundary(s, i) == WordAt(s, i - 1) # WordAt(s, i)

\* /\b(19|20)\d{2}\b/ matches at i
YearAt(s, i) ==
    /\ i + 3 <= Len(s)
    /\ Boundary(s, i)
    /\ SubSeq(s, i, i + 1) \in {"19", "20"}
    /\ IsDigit(Ch(s, i + 2))
    /\ IsDigit(Ch(s, i + 3))
    /\ Boundary(s, i + 4)

\* a run of at least min digits starting at j and followed by \b
DigitsAt(s, j, min) ==
    LET e == DigitRunEnd(s, j) IN e - j + 1 >= min /\ Boundary(s, e + 1)

\* the text w, compared ignoring case, stands at position i of s
HasAt(s, i, w) ==
    i >= 1 /\ i + Len(w) - 1 <= Len(s) /\ toLowerCase(SubSeq(s, i, i + Len(w) - 1)) = w

\* where the digits of /\b(?:v|version)[\s_-]?(\d+)\b/i start when it matches at i, else 0
VersionDigitsStart(s, i) ==
    LET Try(p) ==
            LET j == i + p
            IN  IF j <= Len(s) /\ Ch(s, j) \in {" ", "_", "-"} /\ DigitsAt(s, j + 1, 1) THEN j + 1
                ELSE IF DigitsAt(s, j, 1) THEN j
                ELSE 0
    IN  IF ~Boundary(s, i) THEN 0
        ELSE IF HasAt(s, i, "v") /\ Try(1) > 0 THEN Try(1)
        ELSE IF HasAt(s, i, "version") THEN Try(7)
        ELSE 0

First(S) == CHOOSE i \in S : \A k \in S : i <= k

\* String.prototype.split('-')
RECURSIVE SplitDash(_)
SplitDash(s) ==
    LET D == {i \in 1..Len(s) : Ch(s, i) = "-"}
    IN  IF D = {} THEN <<s>>
        ELSE <<SubSeq(s, 1, First(D) - 1)>> \o SplitDash(SubSeq(s, First(D) + 1, Len(s)))

StopWords == {"service", "request", "getcapabilities", "wms", "kml", "arcgis", "rest", "online"}

\* variant: the last 10 characters of the safe name
LastPartLastTen(safeName) ==
    SubSeq(safeName, IF Len(safeName) > 10 THEN Len(safeName) - 9 ELSE 1, Len(safeName))

\* safeName.split('-').slice(-1)[0].slice(0, 10)
LastPart(safeName) ==
    LET parts == SplitDash(safeName) IN SliceTo(parts[Len(parts)], 10)

extractDistinguishingSuffix(resourceName) ==
    LET safeName == toSafeName(resourceName)
        n        == Len(resourceName)
        Years    == {i \in 1..n : YearAt(resourceName, i)}
        Versions == {i \in 1..n : VersionDigitsStart(resourceName, i) > 0}
        Numbers  == {i \in 1..n : Boundary(resourceName, i) /\ DigitsAt(resourceName, i, 2)}
        parts    == SplitDash(safeName)
        words    == SelectSeq(parts, LAMBDA w : Len(w) > 0 /\ w \notin StopWords)
    IN  IF Years # {} THEN SubSeq(resourceName, First(Years), First(Years) + 3)
        ELSE IF Versions # {}
             THEN LET j == VersionDigitsStart(resourceName, First(Versions))
                  IN  "v" \o SubSeq(resourceName, j, DigitRunEnd(resourceName, j))
        ELSE IF Numbers # {}
             THEN SubSeq(resourceName, First(Numbers), DigitRunEnd(resourceName, First(Numbers)))
        ELSE IF Len(words) >= 2 THEN words[Len(words) - 1] \o "-" \o words[Len(words)]
        ELSE IF Len(words) = 1 THEN words[1]
        ELSE LastPart(safeName)

(***************************************************************************)
(* Insertion-ordered maps (JavaScript Map): a sequence of [k, v] entries.  *)
(***************************************************************************)
MapHas(m, k) == \E i \in 1..Len(m) : m[i].k = k

MapIndex(m, k) == CHOOSE i \in 1..Len(m) : m[i].k = k

MapGet(m, k) == m[MapIndex(m, k)].v

\* Map.prototype.set: an existing key keeps its position and takes the new value
MapSet(m, k, v) ==
    IF MapHas(m, k) THEN [m EXCEPT ![MapIndex(m, k)].v = v]
    ELSE Append(m, [k |-> k, v |-> v])

\* Array.from(map.values())
MapValues(m) == [i \in 1..Len(m) |-> m[i].v]

MapKeys(m) == {m[i].k : i \in 1..Len(m)}

SeqToSet(q) == {q[i] : i \in 1..Len(q)}

(***************************************************************************)
(* The catalogue records the page source can return.  A raw item is a      *)
(* record; a field the schema requires may be absent from it.              *)
(***************************************************************************)
Org(id, name, title) ==
    [id |-> id, name |-> name, title |-> title, description |-> "about " \o title,
     type |-> "organization", created |-> "2020-01-01", approval_status |-> "approved",
     state |-> "active", is_organization |-> TRUE]

Contact(name, email) == [name |-> name, email |-> email, org |-> "org", role |-> "pointOfContact"]

Res(id, name, bcdc_type, format, url) ==
    [id |-> id, name |-> name, bcdc_type |-> bcdc_type, format |-> format, url |-> url]

Pkg(id, name, type, state, organization, contacts, resources) ==
    [id |-> id, name |-> name, type |-> type, state |-> state,
     organization |-> organization, contacts |-> contacts,
     resources |-> [i \in 1..Len(resources) |-> [package_id |-> id] @@ resources[i]]]

OrgRoads == Org("org-1", "ministry-of-roads", "Ministry of Roads")

\* the same organization id under another name and title
OrgRoadsRenamed == Org("org-1", "Roads Ministry", "Roads Ministry")

OrgWater == Org("org-2", "Water Board", "Water Board")

OrgDraft == Org("org-3", "Draft Office", "Draft Office")

PkgRoads ==
    Pkg("p1", "Roads Dataset", "bcdc_dataset", "active", OrgRoads,
        << Contact("Ann", "Ann@Gov.bc.ca"), Contact("Ann B", "ann@gov.bc.ca") >>,
        << Res("r1", "Roads REST", "document", "arcgis_rest", "https://API.gov.bc.ca/roads/rest"),
           Res("r2", "Roads Service 2023", "webservice", "wms", "https://maps.gov.bc.ca/wms"),
           Res("r3", "Roads shapes", "geographic", "shp", "") >>)

\* a second package whose name gives the same safe name as PkgRoads
PkgRoadsAgain ==
    Pkg("p2", "roads_dataset", "bcdc_dataset", "active", OrgRoadsRenamed,
        << Contact("Bob", "bob@example.org"), Contact("Bo", "bo@example-org"),
           Contact("Ann C", "ANN@GOV.BC.CA") >>,
        << Res("r4", "Roads Service 2023", "webservice", "openapi-json", "https://other.example.org/roads"),
           Res("r5", "Roads Service 2023", "webservice", "wms", "https://maps.gov.bc.ca/wms2"),
           Res("r6", "Roads Service 2023", "webservice", "wms", "https://maps.gov.bc.ca/wms3"),
           Res("r18", "Roads Service 2023", "webservice", "openapi-json", "https://api.gov.bc.ca/roads2"),
           Res("r14", "Roads report", "document", "pdf", "https://www.gov.bc.ca/roads.pdf") >>)

PkgSpecs ==
    Pkg("p3", "Open Specs", "bcdc_dataset", "active", OrgWater,
        << Contact("Dee", "dee.example.org"),
           Contact("Dee's alias", "user:default/dee.example.org") >>,
        << Res("r7", "Water API", "document", "openapi-json", "https://api.gov.bc.ca/water.json"),
           Res("r8", "water api", "document", "openapi-json", "https://api.gov.bc.ca/water2.json"),
           Res("r9", "Water notes", "document", "txt", "") >>)

PkgDraft ==
    Pkg("p4", "Draft Plan", "bcdc_dataset", "draft", OrgDraft,
        << Contact("Carl", "carl@draft.ca") >>,
        << Res("r10", "Draft Service", "webservice", "arcgis_rest", "https://draft.ca/rest") >>)

PkgApplication ==
    Pkg("p5", "Some App", "bcdc_application", "active", OrgWater,
        << Contact("Eve", "eve@apps.ca") >>,
        << Res("r11", "App manual", "document", "pdf", "https://apps.ca/manual.pdf") >>)

PkgBadUrl ==
    Pkg("p6", "Lakes", "bcdc_dataset", "active", OrgWater,
        << >>,
        << Res("r12", "Lakes REST", "geographic", "arcgis_rest", "") >>)

\* a retained package without API-bound resources
PkgPlain ==
    Pkg("p9", "Trails", "bcdc_dataset", "active", OrgWater,
        << Contact("Fay", "fay@parks.ca") >>,
        << Res("r13", "Trails list", "document", "csv", "https://parks.ca/trails.csv") >>)

\* an item whose embedded organization is not flagged as an organization
ItemBadOrganization ==
    Pkg("p7", "Broken", "bcdc_dataset", "active",
        [OrgWater EXCEPT !.is_organization = FALSE], << >>, << >>)

\* an item without the required contacts array
ItemNoContacts ==
    [id |-> "p8", name |-> "Broken too", type |-> "bcdc_dataset", state |-> "active",
     organization |-> OrgWater, resources |-> << >>]

\* a resource name that ends in a number of 72 digits
LongLayerName ==
    "Layer 123456789012345678901234567890123456789012345678901234567890123456789012"

\* a package with three web services of that name
PkgLayers ==
    Pkg("p10", "Layers", "bcdc_dataset", "active", OrgWater,
        << >>,
        << Res("r15", LongLayerName, "webservice", "wms", "https://maps.gov.bc.ca/l1"),
           Res("r16", LongLayerName, "webservice", "wms", "https://maps.gov.bc.ca/l2"),
           Res("r17", LongLayerName, "webservice", "wms", "https://maps.gov.bc.ca/l3") >>)

\* a package whose name gives a safe name of 58 characters, with three web services
\* of one name
PkgLong ==
    Pkg("p11", "Bridges and culverts of the provincial highway routes north", "bcdc_dataset",
        "active", OrgWater,
        << >>,
        << Res("r19", "Bridges 2023", "webservice", "wms", "https://maps.gov.bc.ca/b1"),
           Res("r20", "Bridges 2023", "webservice", "wms", "https://maps.gov.bc.ca/b2"),
           Res("r21", "Bridges 2023", "webservice", "wms", "https://maps.gov.bc.ca/b3") >>)

\* a package whose name is that of PkgRoadsAgain followed by a year
PkgRoads2023 ==
    Pkg("p12", "Roads Dataset 2023", "bcdc_dataset", "active", OrgRoads,
        << >>,
        << Res("r22", "Roads Index", "webservice", "wms", "https://maps.gov.bc.ca/index") >>)

\* a package with a web service whose URL has no scheme
PkgNoScheme ==
    Pkg("p13", "Trails Map", "bcdc_dataset", "active", OrgWater,
        << >>,
        << Res("r23", "Trails WMS", "webservice", "wms", "maps.gov.bc.ca/trails") >>)

\* what the pages of the aggregation runs are made of
Pool ==
    {PkgRoads, PkgRoadsAgain, PkgSpecs, PkgDraft, PkgApplication, PkgBadUrl, PkgLayers,
     PkgLong, PkgRoads2023, PkgNoScheme}

\* the pages of the page-loop runs
LoopPages ==
    {<< PkgPlain >>, << PkgDraft, PkgPlain >>, << PkgPlain, ItemNoContacts >>,
     << ItemBadOrganization, PkgPlain >>}

(***************************************************************************)
(* BcDataCataloguePackageSchema.safeParse, for the fields modelled.        *)
(***************************************************************************)
PackageFields == {"id", "name", "type", "state", "organization", "contacts", "resources"}

OrganizationFields ==
    {"id", "name", "title", "description", "type", "created", "approval_status", "state",
     "is_organization"}

ContactFields == {"name", "email", "org", "role"}

ResourceFields == {"id", "name", "bcdc_type", "format", "url", "package_id"}

safeParse(item) ==
    /\ PackageFields \subseteq DOMAIN item
    /\ OrganizationFields \subseteq DOMAIN item.organization
    /\ item.organization.is_organization = TRUE
    /\ \A i \in 1..Len(item.contacts) : ContactFields \subseteq DOMAIN item.contacts[i]
    /\ \A i \in 1..Len(item.resources) : ResourceFields \subseteq DOMAIN item.resources[i]

\* the business filter applied to a structurally valid package
\* variant: either condition is enough to keep a package
IsRetainedEither(pkg) == pkg.type = "bcdc_dataset" \/ pkg.state = "active"

IsRetained(pkg) == pkg.type = "bcdc_dataset" /\ pkg.state = "active"

\* variant: invalid items are skipped instead of ending the call
getBcDataCataloguePackagesSkipping(results) ==
    [threw |-> FALSE,
     packages |-> SelectSeq(results, LAMBDA item : safeParse(item) /\ IsRetained(item))]

\* [threw, packages]: the first invalid item makes the call throw
getBcDataCataloguePackages(results) ==
    IF \E i \in 1..Len(results) : ~safeParse(results[i])
    THEN [threw |-> TRUE, packages |-> << >>]
    ELSE [threw |-> FALSE, packages |-> SelectSeq(results, IsRetained)]

(***************************************************************************)
(* Bounds of the model.                                                    *)
(***************************************************************************)
\* the responses before the last one of one aggregation run
MaxFetches == 2

\* the pages with rows of one page-loop run
LoopMaxPages == 3

\* the malformed or unsuccessful responses of one page-loop run
LoopMaxFailures == 3

(***************************************************************************)
(* State of one run.                                                       *)
(***************************************************************************)
VARIABLES
    env,            \* the environment tag the provider was constructed with
    pc,             \* where run() stands
    page,           \* current page index
    retries,        \* consecutive-failure counter
    allPackages,    \* retained packages of the pages fetched so far
    fetchLog,       \* the requests made to the page source and its responses
    allGroups, allOrganizations, allSystems, allUsers, allComponents, allApis,
    pkgIdx,         \* the package the component/API loop is at
    resIdx,         \* the API resource of that package the inner loop is at
    candidateName,  \* the API name candidate of the resource being named
    counter,        \* the counter of the collision loop
    contentLog,     \* the OpenAPI content fetches made and whether each succeeded
    warnings,       \* what logger.warn was called for
    sink            \* the applyMutation calls received by the connection

vars ==
    << env, pc, page, retries, allPackages, fetchLog, allGroups, allOrganizations,
       allSystems, allUsers, allComponents, allApis, pkgIdx, resIdx, candidateName,
       counter, contentLog, warnings, sink >>

loopVars == << page, retries, allPackages >>

aggVars ==
    << allGroups, allOrganizations, allSystems, allUsers, allComponents, allApis,
       pkgIdx, resIdx, candidateName, counter, contentLog, warnings >>

\* the hosts of backend.reading.allow, lower-cased by the module
allowedHosts == {"api.gov.bc.ca", "maps.gov.bc.ca"}

RowsPerPage == 1000

Init ==
    /\ env \in {"dev", "prod"}
    /\ pc = "fetching"
    /\ page = 0
    /\ retries = 0
    /\ allPackages = << >>
    /\ fetchLog = << >>
    /\ allGroups = << >>
    /\ allOrganizations = << >>
    /\ allSystems = << >>
    /\ allUsers = << >>
    /\ allComponents = << >>
    /\ allApis = << >>
    /\ pkgIdx = 0
    /\ resIdx = 0
    /\ candidateName = ""
    /\ counter = 0
    /\ contentLog = << >>
    /\ warnings = << >>
    /\ sink = << >>

(***************************************************************************)
(* The page-fetch loop.  A response of the page source either raises, or   *)
(* carries a body that is not JSON, or carries the decoded data.           *)
(***************************************************************************)
RaisedResponse == [kind |-> "raised"]

NotJsonResponse == [kind |-> "notjson"]

DataResponse(success, resultsIsArray, results) ==
    [kind |-> "data", success |-> success, resultsIsArray |-> resultsIsArray,
     results |-> results]

\* a response that reports failure, and one whose result holds no results array
Unsuccessful == DataResponse(FALSE, TRUE, << >>)

NoResultsArray == DataResponse(TRUE, FALSE, << >>)

\* variant: only the success flag is looked at
IsInvalidResponseFlagOnly(data) == ~data.success

\* !data?.success || !Array.isArray(data.result?.results)
IsInvalidResponse(data) == ~data.success \/ ~data.resultsIsArray

\* the condition of the do ... while
LoopContinues(p, r) == p > 0 /\ r < 3

\* variant: the offset of the page after the current one
PageRequestNextPage(p) == [start |-> RowsPerPage * (p + 1), rows |-> RowsPerPage]

\* the request of one iteration
PageRequest(p) == [start |-> RowsPerPage * p, rows |-> RowsPerPage]

Logged(response) == Append(fetchLog, [request |-> PageRequest(page), response |-> response])

\* a logged response that carries data and is unsuccessful or without results array
IsFailure(response) ==
    response.kind = "data" /\ (response.success = FALSE \/ response.resultsIsArray = FALSE)

\* the responses with rows among those logged
RowPages(log) ==
    Cardinality({i \in 1..Len(log) : /\ log[i].response.kind = "data"
                                     /\ log[i].response.results # << >>})

FailuresReceived(log) == Cardinality({i \in 1..Len(log) : IsFailure(log[i].response)})

\* lines 97-116: what one iteration does with the decoded data
Iteration(data, p, r, pkgs) ==
    IF IsInvalidResponse(data)
    THEN [threw |-> FALSE, warned |-> TRUE, page |-> p, retries |-> r + 1, allPackages |-> pkgs]
    ELSE IF Len(data.results) > 0
         THEN LET got == getBcDataCataloguePackages(data.results)
              IN  IF got.threw
                  THEN [threw |-> TRUE, warned |-> TRUE, page |-> p, retries |-> 0,
                        allPackages |-> pkgs]
                  ELSE [threw |-> FALSE, warned |-> FALSE, page |-> p + 1, retries |-> 0,
                        allPackages |-> pkgs \o got.packages]
         ELSE [threw |-> FALSE, warned |-> FALSE, page |-> -1, retries |-> 0,
               allPackages |-> pkgs]

\* lines 89-117: one iteration of the loop on a response that decodes to data
Receive(data) ==
    LET it == Iteration(data, page, retries, allPackages)
    IN  /\ fetchLog' = Logged(data)
        /\ page' = it.page
        /\ retries' = it.retries
        /\ allPackages' = it.allPackages
        /\ warnings' = IF it.warned
                       THEN Append(warnings, [kind |-> IF it.threw THEN "invalid-package"
                                                       ELSE "invalid-response"])
                       ELSE warnings
        /\ pc' = IF it.threw THEN "thrown"
                 ELSE IF LoopContinues(it.page, it.retries) THEN "fetching"
                 ELSE "aggregating"
        /\ UNCHANGED << env, allGroups, allOrganizations, allSystems, allUsers, allComponents,
                        allApis, pkgIdx, resIdx, candidateName, counter, contentLog, sink >>

\* reader.readUrl rejects: the error leaves run()
FetchRaises ==
    /\ pc = "fetching"
    /\ fetchLog' = Logged(RaisedResponse)
    /\ pc' = "thrown"
    /\ UNCHANGED << env, loopVars, aggVars, sink >>

\* JSON.parse throws on the body: the error leaves run()
FetchNotJson ==
    /\ pc = "fetching"
    /\ fetchLog' = Logged(NotJsonResponse)
    /\ pc' = "thrown"
    /\ UNCHANGED << env, loopVars, aggVars, sink >>

\* an unsuccessful response or one without a results array
FetchInvalid(Responses) ==
    /\ pc = "fetching"
    /\ \E data \in Responses : Receive(data)

\* a successful response with rows
FetchRows(Contents) ==
    /\ pc = "fetching"
    /\ \E results \in Contents : Receive(DataResponse(TRUE, TRUE, results))

\* a successful response with zero rows
FetchEmpty ==
    /\ pc = "fetching"
    /\ Receive(DataResponse(TRUE, TRUE, << >>))

(***************************************************************************)
(* Aggregation, first part: groups, organizations, systems and users.      *)
(***************************************************************************)
bcGovGroupId == getGroupId("gov.bc.ca")

createGroupEntity(hostName, displayName, hasParent, parentGroup) ==
    [kind |-> "Group", name |-> toSafeName(hostName), displayName |-> displayName,
     hasParent |-> hasParent, parent |-> parentGroup]

RootGroups ==
    MapSet(<< >>, bcGovGroupId,
           createGroupEntity("gov.bc.ca", "Governent of British Columbia", FALSE, ""))

\* allPackages.forEach(pkg => allOrganizations.set(pkg.organization.id, pkg.organization))
RECURSIVE CollectOrganizations(_, _)
CollectOrganizations(m, pkgs) ==
    IF pkgs = << >> THEN m
    ELSE CollectOrganizations(MapSet(m, Head(pkgs).organization.id, Head(pkgs).organization),
                              Tail(pkgs))

SystemEntity(organization) ==
    [kind |-> "System", name |-> toSafeName(organization.name), title |-> organization.title,
     description |-> organization.description, owner |-> bcGovGroupId,
     orgId |-> organization.id, orgType |-> organization.type,
     orgCreated |-> organization.created,
     orgApprovalStatus |-> organization.approval_status, orgState |-> organization.state]

\* allOrganizations.forEach(o => allSystems.set(getSystemId(o.name), systemEntity))
RECURSIVE CollectSystems(_, _)
CollectSystems(m, orgs) ==
    IF orgs = << >> THEN m
    ELSE CollectSystems(MapSet(m, getSystemId(Head(orgs).name), SystemEntity(Head(orgs))),
                        Tail(orgs))

NewUser(email) ==
    [kind |-> "User", name |-> toSafeName(email), email |-> email,
     hasDisplayName |-> FALSE, displayName |-> "", memberOf |-> << >>]

\* const email = contact.email.toLowerCase()
ContactEmail(contact) == toLowerCase(contact.email)

\* the key under which the user of this email is looked up: allUsers.get(email)
UserLookupKey(email) == email

\* one contact of the users pass; st = [users, groups, warnings]
AddContact(st, contact) ==
    LET email   == ContactEmail(contact)
        found   == MapHas(st.users, UserLookupKey(email))
        \* the slot holding the user object the rest of the callback mutates
        key     == IF found THEN UserLookupKey(email) ELSE getUserId(email)
        user0   == IF found THEN MapGet(st.users, key) ELSE NewUser(email)
        users0  == IF found THEN st.users ELSE MapSet(st.users, key, user0)
        user1   == IF ~user0.hasDisplayName
                   THEN [user0 EXCEPT !.hasDisplayName = TRUE, !.displayName = contact.name]
                   ELSE user0
        h       == getEmailHostname(email)
        groupId == getGroupId(h.host)
        groups1 == IF h.found /\ ~MapHas(st.groups, groupId)
                   THEN MapSet(st.groups, groupId,
                               createGroupEntity(h.host, h.host, TRUE, bcGovGroupId))
                   ELSE st.groups
        user2   == IF h.found /\ groupId \notin SeqToSet(user1.memberOf)
                   THEN [user1 EXCEPT !.memberOf = Append(@, groupId)]
                   ELSE user1
    IN  [users    |-> MapSet(users0, key, user2),
         groups   |-> groups1,
         warnings |-> IF h.found THEN st.warnings
                      ELSE Append(st.warnings, [kind |-> "no-hostname", email |-> email])]

RECURSIVE AddContacts(_, _)
AddContacts(st, contacts) ==
    IF contacts = << >> THEN st
    ELSE AddContacts(AddContact(st, Head(contacts)), Tail(contacts))

RECURSIVE CollectUsers(_, _)
CollectUsers(st, pkgs) ==
    IF pkgs = << >> THEN st
    ELSE CollectUsers(AddContacts(st, Head(pkgs).contacts), Tail(pkgs))

\* variant: the sink is called after the first package
AfterPackageFirstOnly(i) == "mutating"

\* where run() goes after the package at index i: the next package or the sink
AfterPackage(i) == IF i < Len(allPackages) THEN "component" ELSE "mutating"

\* lines 119-226: runs once the page loop has ended
Aggregate ==
    /\ pc = "aggregating"
    /\ LET st == CollectUsers([users |-> << >>, groups |-> RootGroups, warnings |-> warnings],
                              allPackages)
       IN  /\ allOrganizations' = CollectOrganizations(<< >>, allPackages)
           /\ allSystems' = CollectSystems(<< >>, MapValues(allOrganizations'))
           /\ allUsers' = st.users
           /\ allGroups' = st.groups
           /\ warnings' = st.warnings
    /\ pkgIdx' = 1
    /\ pc' = AfterPackage(0)
    /\ UNCHANGED << env, loopVars, fetchLog, allComponents, allApis, resIdx, candidateName,
                    counter, contentLog, sink >>

(***************************************************************************)
(* Aggregation, second part: one Component per package and one API per     *)
(* API-bound resource, with the collision resolution of the API names.     *)
(***************************************************************************)
\* the counter values the collision loop is followed for
MaxCounter == 4

\* the resource becomes an API entity (lines 271-274)
IsApiResource(resource) ==
    \/ (resource.bcdc_type = "webservice" /\ resource.format # "kml")
    \/ resource.format = "arcgis_rest"
    \/ resource.format = "openapi-json"

\* the resource becomes a link of the Component (lines 278-291)
IsLinkResource(resource) ==
    /\ ~IsApiResource(resource)
    /\ resource.bcdc_type # "geographic"
    /\ Len(resource.url) > 0

ApiResources(pkg) == SelectSeq(pkg.resources, IsApiResource)

ContactLink(contact) ==
    [url |-> "mailto:" \o toLowerCase(contact.email), title |-> "Contact: " \o contact.name,
     icon |-> "email", type |-> "contact"]

ResourceLink(resource) ==
    [url |-> resource.url, title |-> resource.name, icon |-> "catalog",
     type |-> resource.bcdc_type]

EntityLinks(pkg) ==
    [i \in 1..Len(pkg.contacts) |-> ContactLink(pkg.contacts[i])]
    \o LET linked == SelectSeq(pkg.resources, IsLinkResource)
       IN  [i \in 1..Len(linked) |-> ResourceLink(linked[i])]

ComponentEntity(pkg) ==
    [kind |-> "Component", name |-> toSafeName(pkg.name), type |-> pkg.type,
     owner |-> bcGovGroupId, providesApis |-> << >>,
     system |-> getSystemId(pkg.organization.name), links |-> EntityLinks(pkg),
     packageId |-> pkg.id, packageName |-> pkg.name, packageState |-> pkg.state]

CurrentPackage == allPackages[pkgIdx]

CurrentResource == ApiResources(CurrentPackage)[resIdx]

\* lines 230-371: the Component of the package at pkgIdx
BuildComponent ==
    /\ pc = "component"
    /\ allComponents' = MapSet(allComponents, getComponentId(toSafeName(CurrentPackage.name)),
                               ComponentEntity(CurrentPackage))
    /\ IF ApiResources(CurrentPackage) # << >>
       THEN /\ pc' = "api"
            /\ resIdx' = 1
            /\ UNCHANGED pkgIdx
       ELSE /\ pc' = AfterPackage(pkgIdx)
            /\ pkgIdx' = pkgIdx + 1
            /\ UNCHANGED resIdx
    /\ UNCHANGED << env, loopVars, fetchLog, allGroups, allOrganizations, allSystems, allUsers,
                    allApis, candidateName, counter, contentLog, warnings, sink >>

\* the resource name is prefixed and checked for collisions (line 380)
IsDisambiguated(resource) ==
    resource.bcdc_type = "webservice" \/ resource.format = "arcgis_rest"

\* lines 382-385
BaseName(resource, safeName) ==
    LET prefix == IF resource.format = "openapi-json" THEN "api" ELSE resource.format
    IN  toSafeName(toSafeName(prefix) \o "-" \o safeName)

\* the decimal digits of a natural number, as a template literal prints it
RECURSIVE ToDecimal(_)
ToDecimal(n) ==
    IF n < 10 THEN Ch(DigitChars, n + 1) ELSE ToDecimal(n \div 10) \o Ch(DigitChars, (n % 10) + 1)

\* baseName cut to leave room for what is appended (lines 400-403 and 414-417)
TruncatedBase(baseName, maxBaseLength) ==
    IF Len(baseName) > maxBaseLength THEN TrimTrailing(SliceTo(baseName, maxBaseLength))
    ELSE baseName

\* variant: the suffixed candidate is not passed through toSafeName
SuffixedNameRaw(baseName, resourceName) ==
    LET suffixWithSeparator == "-" \o extractDistinguishingSuffix(resourceName)
    IN  TruncatedBase(baseName, MaxNameLen - Len(suffixWithSeparator)) \o suffixWithSeparator

\* lines 393-405: the candidate with the distinguishing suffix
SuffixedName(baseName, resourceName) ==
    LET suffixWithSeparator == "-" \o extractDistinguishingSuffix(resourceName)
        maxBaseLength       == MaxNameLen - Len(suffixWithSeparator)
    IN  toSafeName(TruncatedBase(baseName, maxBaseLength) \o suffixWithSeparator)

\* variant: the counters start at 0
CounterNameFromZero(baseName, resourceName, n) ==
    LET suffixWithSeparator == "-" \o extractDistinguishingSuffix(resourceName)
        counterSuffix       == "-" \o ToDecimal(n - 1)
        maxBaseWithCounter  == MaxNameLen - Len(suffixWithSeparator) - Len(counterSuffix)
    IN  toSafeName(TruncatedBase(baseName, maxBaseWithCounter) \o suffixWithSeparator
                   \o counterSuffix)

\* lines 412-418: the candidate with the suffix and the counter
CounterName(baseName, resourceName, n) ==
    LET suffixWithSeparator == "-" \o extractDistinguishingSuffix(resourceName)
        counterSuffix       == "-" \o ToDecimal(n)
        maxBaseWithCounter  == MaxNameLen - Len(suffixWithSeparator) - Len(counterSuffix)
    IN  toSafeName(TruncatedBase(baseName, maxBaseWithCounter) \o suffixWithSeparator
                   \o counterSuffix)

\* lines 375-409: the first candidate name of the resource
FirstCandidate(resource, safeName, apis) ==
    IF ~IsDisambiguated(resource) THEN toSafeName(resource.name)
    ELSE IF MapHas(apis, getApiId(BaseName(resource, safeName)))
         THEN SuffixedName(BaseName(resource, safeName), resource.name)
         ELSE BaseName(resource, safeName)

\* the collision loop is entered and its condition holds (lines 391, 410)
LoopCollides(resource, apis, candidate) ==
    /\ IsDisambiguated(resource)
    /\ MapHas(apis, getApiId(candidate))

\* where run() goes after the API resource at index i of the current package
AfterResource(i) ==
    IF i < Len(ApiResources(CurrentPackage)) THEN "api" ELSE AfterPackage(pkgIdx)

\* lines 375-409: the start of one iteration of the API loop
StartApi ==
    /\ pc = "api"
    /\ candidateName' = FirstCandidate(CurrentResource, toSafeName(CurrentPackage.name), allApis)
    /\ counter' = 1
    /\ pc' = "naming"
    /\ UNCHANGED << env, loopVars, fetchLog, allGroups, allOrganizations, allSystems, allUsers,
                    allComponents, allApis, pkgIdx, resIdx, contentLog, warnings, sink >>

\* lines 410-421: one iteration of the counter loop
CounterStep ==
    /\ pc = "naming"
    /\ LoopCollides(CurrentResource, allApis, candidateName)
    /\ counter <= MaxCounter
    /\ candidateName' = CounterName(BaseName(CurrentResource, toSafeName(CurrentPackage.name)),
                                    CurrentResource.name, counter)
    /\ counter' = counter + 1
    /\ UNCHANGED << env, pc, loopVars, fetchLog, allGroups, allOrganizations, allSystems,
                    allUsers, allComponents, allApis, pkgIdx, resIdx, contentLog, warnings,
                    sink >>

(***************************************************************************)
(* new URL(definition): the texts accepted are <scheme>://<host>[/...]     *)
(***************************************************************************)
IsLetter(c) == c \in LowerSet \cup UpperSet

\* the position of "://" after a scheme of letters, or 0
SchemeEnd(url) ==
    LET At == {i \in 2..Len(url) : /\ HasAt(url, i, "://")
                                   /\ \A k \in 1..(i - 1) : IsLetter(Ch(url, k))}
    IN  IF At = {} THEN 0 ELSE First(At)

RECURSIVE HostEnd(_, _)
HostEnd(url, i) ==
    IF i <= Len(url) /\ Ch(url, i) \notin {"/", "?", "#"} THEN HostEnd(url, i + 1) ELSE i - 1

UrlHost(url) == SubSeq(url, SchemeEnd(url) + 3, HostEnd(url, SchemeEnd(url) + 3))

\* variant: every text is taken as a URL
UrlParsesAnything(url) == TRUE

\* new URL(url) does not throw
UrlParses(url) == SchemeEnd(url) > 0 /\ UrlHost(url) # ""

\* what the content fetch of an OpenAPI definition returns
ContentOf(url) == "{\"openapi\": \"3.0\", \"from\": \"" \o url \o "\"}"

ApiLinks(resource) ==
    IF Len(resource.url) > 0
    THEN << [url |-> resource.url, title |-> resource.name, icon |-> "api",
             type |-> resource.bcdc_type] >>
    ELSE << >>

ApiEntity(resource, apiSafeName, definitionContent, systemId) ==
    [kind |-> "API", name |-> apiSafeName,
     type |-> IF resource.format = "openapi-json" THEN "openapi" ELSE resource.bcdc_type,
     owner |-> bcGovGroupId, definition |-> definitionContent, system |-> systemId,
     links |-> ApiLinks(resource), resourceId |-> resource.id,
     resourceName |-> resource.name, format |-> resource.format,
     packageId |-> resource.package_id, url |-> resource.url]

\* lines 427-428: new URL(definition) throws and the error leaves run()
ApiUrlThrows ==
    /\ pc = "naming"
    /\ ~LoopCollides(CurrentResource, allApis, candidateName)
    /\ ~UrlParses(CurrentResource.url)
    /\ pc' = "thrown"
    /\ UNCHANGED << env, loopVars, fetchLog, aggVars, sink >>

\* the name the API entity is recorded under (lines 377, 424)
ApiSafeName(resource, candidate) == candidate

\* variant: the content is embedded only when the host is an allowed one
DefinitionContentAllowedOnly(resource, fetchOk) ==
    IF /\ resource.format = "openapi-json"
       /\ fetchOk
       /\ toLowerCase(UrlHost(resource.url)) \in allowedHosts
    THEN ContentOf(resource.url)
    ELSE resource.url

\* variant: the content is embedded whatever the format
DefinitionContentAnyFormat(resource, fetchOk) ==
    IF fetchOk THEN ContentOf(resource.url) ELSE resource.url

\* lines 449-462: the definition of the API entity; fetchOk tells whether the content
\* fetch of an openapi-json resource succeeds
DefinitionContent(resource, fetchOk) ==
    IF resource.format = "openapi-json" /\ fetchOk THEN ContentOf(resource.url)
    ELSE resource.url

\* lines 427-539: the rest of one iteration of the API loop; fetchOk tells whether
\* the content fetch of an openapi-json resource succeeds
EmitApi(fetchOk) ==
    /\ pc = "naming"
    /\ ~LoopCollides(CurrentResource, allApis, candidateName)
    /\ UrlParses(CurrentResource.url)
    /\ CurrentResource.format # "openapi-json" => fetchOk
    /\ LET resource   == CurrentResource
           apiName    == ApiSafeName(resource, candidateName)
           host       == toLowerCase(UrlHost(resource.url))
           fetched    == resource.format = "openapi-json"
           definition == DefinitionContent(resource, fetchOk)
           apiId      == getApiId(apiName)
           compId     == getComponentId(toSafeName(CurrentPackage.name))
           w1 == IF host \notin allowedHosts
                 THEN << [kind |-> "host-not-allowed", host |-> host] >> ELSE << >>
           w2 == IF fetched /\ ~fetchOk
                 THEN << [kind |-> "content-fetch-failed", url |-> resource.url] >> ELSE << >>
           w3 == IF MapHas(allApis, apiId)
                 THEN << [kind |-> "duplicate-api", id |-> apiId] >> ELSE << >>
       IN  /\ contentLog' = IF fetched
                            THEN Append(contentLog, [url |-> resource.url, ok |-> fetchOk])
                            ELSE contentLog
           /\ warnings' = warnings \o w1 \o w2 \o w3
           /\ allApis' = MapSet(allApis, apiId,
                                ApiEntity(resource, apiName, definition,
                                          getSystemId(CurrentPackage.organization.name)))
           /\ allComponents' =
                 [allComponents EXCEPT ![MapIndex(allComponents, compId)].v.providesApis =
                                           Append(@, apiId)]
    /\ pc' = AfterResource(resIdx)
    /\ IF resIdx < Len(ApiResources(CurrentPackage))
       THEN resIdx' = resIdx + 1 /\ UNCHANGED pkgIdx
       ELSE pkgIdx' = pkgIdx + 1 /\ UNCHANGED resIdx
    /\ UNCHANGED << env, loopVars, fetchLog, allGroups, allOrganizations, allSystems, allUsers,
                    candidateName, counter, sink >>

\* the partition key of the entities of this provider
LocationKey == "bc-data-catalogue-provider:" \o env

AllEntities ==
    MapValues(allUsers) \o MapValues(allGroups) \o MapValues(allSystems)
    \o MapValues(allComponents) \o MapValues(allApis)

\* lines 542-562: the full-replace mutation handed to the connection
ApplyMutation ==
    /\ pc = "mutating"
    /\ sink' = Append(sink, [type |-> "full",
                             entities |-> [i \in 1..Len(AllEntities) |->
                                              [entity |-> AllEntities[i],
                                               locationKey |-> LocationKey]]])
    /\ pc' = "done"
    /\ UNCHANGED << env, loopVars, fetchLog, aggVars >>

\* the page contents an aggregation run may still receive: one item per page
PoolPages == IF Len(fetchLog) < MaxFetches THEN {<< item >> : item \in Pool} ELSE {}

\* the failures an aggregation run may still receive
PoolFailures == IF Len(fetchLog) < MaxFetches THEN {Unsuccessful} ELSE {}

\* the page contents a page-loop run may still receive
MoreLoopPages == IF RowPages(fetchLog) < LoopMaxPages THEN LoopPages ELSE {}

\* the failures a page-loop run may still receive
MoreLoopFailures ==
    IF FailuresReceived(fetchLog) < LoopMaxFailures THEN {Unsuccessful, NoResultsArray} ELSE {}

Next ==
    \/ FetchRaises
    \/ FetchNotJson
    \/ FetchInvalid(PoolFailures)
    \/ FetchRows(PoolPages)
    \/ FetchEmpty
    \/ Aggregate
    \/ BuildComponent
    \/ StartApi
    \/ CounterStep
    \/ ApiUrlThrows
    \/ EmitApi(TRUE)
    \/ EmitApi(FALSE)
    \/ ApplyMutation

Spec == Init /\ [][Next]_vars

\* runs over pages without API-bound resources: the API loop has nothing to do
NextLoop ==
    \/ FetchRaises
    \/ FetchNotJson
    \/ FetchInvalid(MoreLoopFailures)
    \/ FetchRows(MoreLoopPages)
    \/ FetchEmpty
    \/ Aggregate
    \/ BuildComponent
    \/ ApplyMutation

SpecLoop == Init /\ [][NextLoop]_vars

(***************************************************************************)
(* toSafeName on its own: a resource name drawn from NameTexts is made     *)
(* safe as the API loop does for resource.name, and the result is made     *)
(* safe once more.                                                         *)
(***************************************************************************)
RECURSIVE Repeat(_, _)
Repeat(s, n) == IF n <= 0 THEN "" ELSE s \o Repeat(s, n - 1)

\* how far below the length limit the long texts start
MaxPad == 3

NameHeads == {"", "-", "_.", "A", " ab", "!"}

\* the example of the documentation, short texts, texts without any letter or
\* digit, and runs that end 0..MaxPad characters before the length limit
NameBodies ==
    {"", "ABC def_123!!", "x--y", "Roads.Service_v2", "___", "B.C."}
    \cup {Repeat("a", MaxNameLen - k) : k \in 0..MaxPad}

NameTails == {"", "-", "-b", "--b", "_c.", "!!", "Z9", "-._", ".d-e"}

NameTexts == {h \o b \o t : h \in NameHeads, b \in NameBodies, t \in NameTails}

ResNamed(text) == Res("r0", text, "webservice", "wms", "https://maps.gov.bc.ca/wms")

InitNames ==
    /\ env = "dev"
    /\ pc = "text"
    /\ page = 0
    /\ retries = 0
    /\ allPackages \in {<< Pkg("p0", "names", "bcdc_dataset", "active", OrgRoads, << >>,
                              << ResNamed(text) >>) >> : text \in NameTexts}
    /\ fetchLog = << >>
    /\ allGroups = << >>
    /\ allOrganizations = << >>
    /\ allSystems = << >>
    /\ allUsers = << >>
    /\ allComponents = << >>
    /\ allApis = << >>
    /\ pkgIdx = 1
    /\ resIdx = 1
    /\ candidateName = ""
    /\ counter = 0
    /\ contentLog = << >>
    /\ warnings = << >>
    /\ sink = << >>

\* const resourceSafeName = this.toSafeName(resource.name)
SafeName ==
    /\ pc = "text"
    /\ candidateName' = toSafeName(allPackages[pkgIdx].resources[resIdx].name)
    /\ pc' = "safe"
    /\ UNCHANGED << env, page, retries, allPackages, fetchLog, allGroups, allOrganizations,
                    allSystems, allUsers, allComponents, allApis, pkgIdx, resIdx, counter,
                    contentLog, warnings, sink >>

\* this.toSafeName(...) of a text that is a safe name already, as for
\* `${resourceSafeName}-${suffix}` with nothing appended
SafeNameAgain ==
    /\ pc = "safe"
    /\ candidateName' = toSafeName(candidateName)
    /\ pc' = "safe-again"
    /\ UNCHANGED << env, page, retries, allPackages, fetchLog, allGroups, allOrganizations,
                    allSystems, allUsers, allComponents, allApis, pkgIdx, resIdx, counter,
                    contentLog, warnings, sink >>

NextNames ==
    \/ SafeName
    \/ SafeNameAgain

SpecNames == InitNames /\ [][NextNames]_vars

(***************************************************************************)
(* extractDistinguishingSuffix on its own: the suffix of a resource name   *)
(* drawn from SuffixTexts is extracted as the collision branch does.       *)
(***************************************************************************)
\* how many words a resource name is made of at most
MaxWords == 2

NameWords ==
    {"Roads", "Lakes_North", "Service", "WMS", "GetCapabilities", "Request", "kml",
     "ArcGIS", "2023", "v2", "Version_3", "42", "7", "Roads2023", "!!"}

NameSeparators == {" ", "-", " - "}

RECURSIVE TextsOfWords(_)
TextsOfWords(n) ==
    IF n = 0 THEN {""}
    ELSE IF n = 1 THEN NameWords
    ELSE TextsOfWords(n - 1)
         \cup {t \o sep \o w : t \in TextsOfWords(n - 1), sep \in NameSeparators, w \in NameWords}

SuffixTexts == {""} \cup TextsOfWords(MaxWords)

InitSuffix ==
    /\ env = "dev"
    /\ pc = "collision"
    /\ page = 0
    /\ retries = 0
    /\ allPackages \in {<< Pkg("p0", "names", "bcdc_dataset", "active", OrgRoads, << >>,
                              << ResNamed(text) >>) >> : text \in SuffixTexts}
    /\ fetchLog = << >>
    /\ allGroups = << >>
    /\ allOrganizations = << >>
    /\ allSystems = << >>
    /\ allUsers = << >>
    /\ allComponents = << >>
    /\ allApis = << >>
    /\ pkgIdx = 1
    /\ resIdx = 1
    /\ candidateName = ""
    /\ counter = 0
    /\ contentLog = << >>
    /\ warnings = << >>
    /\ sink = << >>

\* const distinguishingSuffix = this.extractDistinguishingSuffix(name)
DistinguishingSuffix ==
    /\ pc = "collision"
    /\ candidateName' = extractDistinguishingSuffix(allPackages[pkgIdx].resources[resIdx].name)
    /\ pc' = "suffix"
    /\ UNCHANGED << env, page, retries, allPackages, fetchLog, allGroups, allOrganizations,
                    allSystems, allUsers, allComponents, allApis, pkgIdx, resIdx, counter,
                    contentLog, warnings, sink >>

NextSuffix == DistinguishingSuffix

SpecSuffix == InitSuffix /\ [][NextSuffix]_vars

(***************************************************************************)
(* What the log of a run and its outputs tell, for the properties below.   *)
(***************************************************************************)
LastFetch == fetchLog[Len(fetchLog)]

\* a successful response with rows, and one with zero rows
HasRows(response) ==
    /\ response.kind = "data"
    /\ response.success = TRUE
    /\ response.resultsIsArray = TRUE
    /\ response.results # << >>

IsEmptyPage(response) ==
    /\ response.kind = "data"
    /\ response.success = TRUE
    /\ response.resultsIsArray = TRUE
    /\ response.results = << >>

\* the malformed or unsuccessful responses at the end of a log
RECURSIVE TrailingFailures(_)
TrailingFailures(log) ==
    IF log = << >> \/ ~IsFailure(log[Len(log)].response) THEN 0
    ELSE 1 + TrailingFailures(SubSeq(log, 1, Len(log) - 1))

\* the items of the pages received, and those of type dataset in state active
ReceivedItems ==
    UNION {SeqToSet(fetchLog[i].response.results) :
              i \in {j \in 1..Len(fetchLog) : HasRows(fetchLog[j].response)}}

KeptItems == {item \in ReceivedItems : item.type = "bcdc_dataset" /\ item.state = "active"}

\* the entities handed to the sink, and those of one kind
SinkEntities ==
    IF sink = << >> THEN << >>
    ELSE [i \in 1..Len(sink[1].entities) |-> sink[1].entities[i].entity]

CountOfKind(entities, kind) ==
    Cardinality({i \in 1..Len(entities) : entities[i].kind = kind})

\* the API-bound resources of a sequence of packages
RECURSIVE QualifyingCount(_)
QualifyingCount(pkgs) ==
    IF pkgs = << >> THEN 0
    ELSE Len(ApiResources(Head(pkgs))) + QualifyingCount(Tail(pkgs))

RECURSIVE OpenApiCount(_)
OpenApiCount(pkgs) ==
    IF pkgs = << >> THEN 0
    ELSE Len(SelectSeq(ApiResources(Head(pkgs)), LAMBDA r : r.format = "openapi-json"))
         + OpenApiCount(Tail(pkgs))

SameIgnoringCase(a, b) ==
    /\ Len(a) = Len(b)
    /\ \A i \in 1..Len(a) : LowerOf(Ch(a, i)) = LowerOf(Ch(b, i))

NoDuplicates(seq) == \A i, j \in 1..Len(seq) : i # j => seq[i] # seq[j]

(***************************************************************************)
(* Properties of a run.                                                    *)
(***************************************************************************)

\* C1: in a completed run the number of API entities emitted equals the number of
\* qualifying resources of the retained packages: every qualifying resource is
\* recorded under an identifier of its own and none replaces an earlier one.
C1_EveryResourceItsOwnApi ==
    pc = "done" => CountOfKind(SinkEntities, "API") = QualifyingCount(allPackages)

\* C2: when the page loop has ended on a malformed or unsuccessful response, nothing
\* is aggregated and the sink receives no mutation.
C2_FailedLoopNeverAggregates ==
    (pc # "fetching" /\ fetchLog # << >> /\ IsFailure(LastFetch.response))
        => (allGroups = << >> /\ allComponents = << >> /\ sink = << >>)

\* C3: at every page index the loop stops fetching only after a successful response
\* with zero rows or after three consecutive malformed or unsuccessful responses;
\* after fewer than three such responses the same page is fetched next, and after a
\* response with rows the next page is.
C3_StopsOnlyWhenDoneOrAborted ==
    /\ pc \notin {"fetching", "thrown"}
          => (IsEmptyPage(LastFetch.response) \/ TrailingFailures(fetchLog) >= 3)
    /\ (pc # "thrown" /\ fetchLog # << >> /\ IsFailure(LastFetch.response)
            /\ TrailingFailures(fetchLog) < 3)
          => (pc = "fetching" /\ RowsPerPage * page = LastFetch.request.start)
    /\ (pc = "fetching" /\ fetchLog # << >> /\ HasRows(LastFetch.response))
          => RowsPerPage * page = LastFetch.request.start + RowsPerPage

\* an item that fails structural validation was received in some page
InvalidItemReceived ==
    \E i \in 1..Len(fetchLog) :
        /\ HasRows(fetchLog[i].response)
        /\ \E j \in 1..Len(fetchLog[i].response.results) :
               ~safeParse(fetchLog[i].response.results[j])

\* C4: once an item of a fetched page has failed structural validation the run has
\* thrown and the sink has received no mutation, whatever was fetched before.
C4_InvalidItemEndsRun ==
    InvalidItemReceived => (pc = "thrown" /\ sink = << >>)

\* a run that threw on an invalid item of its third page, after valid packages
C4_Witness ==
    /\ InvalidItemReceived
    /\ pc = "thrown"
    /\ Len(fetchLog) >= 3
    /\ Len(allPackages) >= 2
    /\ sink = << >>

\* C5: a page fetch that raises, or whose body is not of the expected shape, does
\* not make the run throw: the failure counter is incremented and, below three
\* failures, the same page is fetched again.
C5_FetchFailureIsRecoverable ==
    (fetchLog # << >>
        /\ (LastFetch.response.kind \in {"raised", "notjson"} \/ IsFailure(LastFetch.response)))
        => /\ pc # "thrown"
           /\ retries >= 1
           /\ retries < 3 => (pc = "fetching" /\ RowsPerPage * page = LastFetch.request.start)

\* every response so far was successful and all its items were valid
NeverFailed ==
    \A i \in 1..Len(fetchLog) :
        /\ HasRows(fetchLog[i].response) \/ IsEmptyPage(fetchLog[i].response)
        /\ \A j \in 1..Len(fetchLog[i].response.results) :
               safeParse(fetchLog[i].response.results[j])

\* C6: with a source that never fails, the k-th fetch asks for start = 1000*(k-1)
\* and rows = 1000, no fetch follows an empty page, the loop goes on after every
\* page with rows and ends with the first empty page: n pages with rows make
\* exactly n+1 fetches.
C6_FetchesPagesInOrderUntilEmpty ==
    NeverFailed =>
        /\ \A k \in 1..Len(fetchLog) :
               fetchLog[k].request = [start |-> 1000 * (k - 1), rows |-> 1000]
        /\ \A k \in 1..(Len(fetchLog) - 1) : HasRows(fetchLog[k].response)
        /\ (pc = "fetching") <=> (fetchLog = << >> \/ HasRows(LastFetch.response))
        /\ pc # "fetching" => Len(fetchLog) = RowPages(fetchLog) + 1

\* three pages with rows and then an empty one: four fetches, and the run completes
C6_Witness ==
    /\ NeverFailed
    /\ pc = "done"
    /\ Len(fetchLog) = 4
    /\ RowPages(fetchLog) = 3
    /\ IsEmptyPage(LastFetch.response)

\* C7: while the run has not thrown, the failure counter is the number of malformed
\* or unsuccessful responses received since the last successful one (or since the
\* start); a successful response leaves it at 0; it is never above 3.
C7_RetriesCountsConsecutiveFailures ==
    /\ retries \in 0..3
    /\ pc # "thrown" => retries = TrailingFailures(fetchLog)
    /\ (fetchLog # << >> /\ ~IsFailure(LastFetch.response)
            /\ LastFetch.response.kind = "data") => retries = 0

\* two failures on a later page, then a page with rows: the counter is back at 0
C7_Witness ==
    /\ pc = "fetching"
    /\ retries = 0
    /\ Len(fetchLog) >= 4
    /\ IsFailure(fetchLog[Len(fetchLog) - 2].response)
    /\ IsFailure(fetchLog[Len(fetchLog) - 1].response)
    /\ HasRows(LastFetch.response)

FromKeptItem(entity) ==
    \/ entity.kind = "Group" /\ ~entity.hasParent
    \/ \E item \in KeptItems :
        CASE entity.kind = "System" -> item.organization.id = entity.orgId
          [] entity.kind = "User" ->
                 \E i \in 1..Len(item.contacts) :
                     SameIgnoringCase(item.contacts[i].email, entity.email)
          [] entity.kind = "Group" ->
                 \E i \in 1..Len(item.contacts) :
                     LET h == getEmailHostname(LowerString(item.contacts[i].email))
                     IN  h.found /\ h.host = entity.displayName
          [] entity.kind = "Component" -> item.id = entity.packageId
          [] entity.kind = "API" ->
                 \E i \in 1..Len(item.resources) : item.resources[i].id = entity.resourceId

\* C9: every System, User, Group (but the root), Component and API, in the
\* collections and in what the sink receives, derives from a received package of
\* type "bcdc_dataset" in state "active": the other packages contribute nothing.
C9_OnlyRetainedPackagesContribute ==
    /\ \A i \in 1..Len(AllEntities) : FromKeptItem(AllEntities[i])
    /\ \A i \in 1..Len(SinkEntities) : FromKeptItem(SinkEntities[i])
    /\ \A i \in 1..Len(allPackages) : allPackages[i] \in KeptItems

\* a completed run that received a package that is not retained and one that is
C9_Witness ==
    /\ pc = "done"
    /\ ReceivedItems \ KeptItems # {}
    /\ KeptItems # {}
    /\ CountOfKind(SinkEntities, "Component") = 1
    /\ CountOfKind(SinkEntities, "User") >= 1

\* the contacts of the retained packages
RetainedContacts ==
    UNION {SeqToSet(allPackages[i].contacts) : i \in 1..Len(allPackages)}

UsersOf(entities, email) ==
    {i \in 1..Len(entities) :
        entities[i].kind = "User" /\ SameIgnoringCase(entities[i].email, email)}

\* C10: once the users are aggregated, and in what the sink receives, every contact
\* of a retained package has exactly one User entity of its email, compared
\* ignoring case, and no User lists a group twice.
C10_OneUserPerEmail ==
    /\ allGroups # << >> =>
          \A c \in RetainedContacts :
              /\ Cardinality(UsersOf(MapValues(allUsers), c.email)) = 1
              /\ \A i \in UsersOf(MapValues(allUsers), c.email) :
                     NoDuplicates(allUsers[i].v.memberOf)
    /\ sink # << >> =>
          \A c \in RetainedContacts :
              /\ Cardinality(UsersOf(SinkEntities, c.email)) = 1
              /\ \A i \in UsersOf(SinkEntities, c.email) :
                     NoDuplicates(SinkEntities[i].memberOf)

\* the contact records of a sequence of packages, in package order then contact order
RECURSIVE ContactsInOrder(_)
ContactsInOrder(pkgs) ==
    IF pkgs = << >> THEN << >> ELSE Head(pkgs).contacts \o ContactsInOrder(Tail(pkgs))

\* the first contact record of that email, compared ignoring case
FirstContactOf(contacts, email) ==
    LET hits == {i \in 1..Len(contacts) : SameIgnoringCase(contacts[i].email, email)}
    IN  contacts[CHOOSE i \in hits : \A j \in hits : i <= j]

\* C11: the display name of every User entity is the name of the first contact
\* record of its email, in package order then contact order; later records of the
\* same email do not change it.
C11_DisplayNameOfFirstContact ==
    \A i \in 1..Len(allUsers) :
        LET user == allUsers[i].v
        IN  /\ user.hasDisplayName
            /\ user.displayName = FirstContactOf(ContactsInOrder(allPackages), user.email).name

\* the first package, in input order, that embeds the organization of that id
FirstPackageOfOrganization(pkgs, id) ==
    pkgs[CHOOSE i \in 1..Len(pkgs) :
            /\ pkgs[i].organization.id = id
            /\ \A j \in 1..(i - 1) : pkgs[j].organization.id # id]

\* C12: once the systems are aggregated, every organization id of the retained
\* packages has one System entity, and it carries the name, title, description,
\* type, created, approval status and state of the first package of that id.
C12_SystemOfFirstOrganization ==
    allGroups # << >> =>
        \A p \in 1..Len(allPackages) :
            LET id      == allPackages[p].organization.id
                first   == FirstPackageOfOrganization(allPackages, id).organization
                systems == {i \in 1..Len(allSystems) : allSystems[i].v.orgId = id}
            IN  /\ Cardinality(systems) = 1
                /\ \A i \in systems :
                       /\ allSystems[i].v.name = toSafeName(first.name)
                       /\ allSystems[i].v.title = first.title
                       /\ allSystems[i].v.description = first.description
                       /\ allSystems[i].v.orgType = first.type
                       /\ allSystems[i].v.orgCreated = first.created
                       /\ allSystems[i].v.orgApprovalStatus = first.approval_status
                       /\ allSystems[i].v.orgState = first.state

\* the step that records the API entity of the current resource
ApiRecorded == pc = "naming" /\ pc' \notin {"naming", "thrown"}

\* C13: the step that records an API entity makes one content fetch exactly when the
\* resource format is openapi-json; the definition is the fetched content when that
\* fetch succeeded; when it threw, the definition is the resource URL and a warning
\* is logged; for any other format the definition is the resource URL; in every
\* case the entity is recorded and the run goes on.
C13_DefinitionIsContentOrUrl ==
    [][ApiRecorded =>
          LET resource == CurrentResource
              entity   == MapGet(allApis', getApiId(candidateName))
              fetches  == SubSeq(contentLog', Len(contentLog) + 1, Len(contentLog'))
              warned   == SubSeq(warnings', Len(warnings) + 1, Len(warnings'))
              failed   == [kind |-> "content-fetch-failed", url |-> resource.url]
          IN  /\ MapHas(allApis', getApiId(candidateName))
              /\ entity.resourceId = resource.id
              /\ pc' \in {"api", "component", "mutating"}
              /\ IF resource.format = "openapi-json"
                 THEN /\ Len(fetches) = 1
                      /\ fetches[1].url = resource.url
                      /\ fetches[1].ok =>
                            /\ entity.definition = ContentOf(resource.url)
                            /\ failed \notin SeqToSet(warned)
                      /\ ~fetches[1].ok =>
                            /\ entity.definition = resource.url
                            /\ failed \in SeqToSet(warned)
                 ELSE /\ fetches = << >>
                      /\ entity.definition = resource.url
                      /\ failed \notin SeqToSet(warned)]_vars

\* a completed run that emitted an API with the fetched content, one with the URL
\* after a content fetch that threw, and one of another format
C13_Witness ==
    /\ pc = "done"
    /\ \E i, j, k \in 1..Len(allApis) :
           /\ allApis[i].v.format = "openapi-json"
           /\ allApis[i].v.definition = ContentOf(allApis[i].v.url)
           /\ allApis[j].v.format = "openapi-json"
           /\ allApis[j].v.definition = allApis[j].v.url
           /\ allApis[k].v.format # "openapi-json"
           /\ allApis[k].v.definition = allApis[k].v.url
    /\ \E w \in SeqToSet(warnings) : w.kind = "content-fetch-failed"
    /\ \E f \in SeqToSet(contentLog) : ~f.ok

\* the host of the URL is one of the allowed hosts, compared ignoring case
HostAllowed(url) == \E h \in allowedHosts : SameIgnoringCase(h, UrlHost(url))

\* C14: the step that records the API entity of a resource logs a warning exactly
\* when the host of its URL is not an allowed one, never throws, and records, under
\* the name chosen for the resource, the entity built from the resource and from
\* the outcome of its content fetch alone: the same for an allowed host and for
\* any other.
C14_AllowlistOnlyWarns ==
    [][ApiRecorded =>
          LET resource   == CurrentResource
              entity     == MapGet(allApis', getApiId(candidateName))
              warned     == SubSeq(warnings', Len(warnings) + 1, Len(warnings'))
              fetched    == /\ resource.format = "openapi-json"
                            /\ contentLog'[Len(contentLog')].ok
              definition == IF fetched THEN ContentOf(resource.url) ELSE resource.url
          IN  /\ (\E w \in SeqToSet(warned) : w.kind = "host-not-allowed")
                     <=> ~HostAllowed(resource.url)
              /\ pc' \in {"api", "component", "mutating"}
              /\ entity = ApiEntity(resource, candidateName, definition,
                                    getSystemId(CurrentPackage.organization.name))
              /\ entity.name = candidateName
              /\ entity.definition = definition]_vars

\* a completed run that emitted, with a warning, an API whose host is not allowed and
\* whose definition is the fetched content, and another whose host is allowed
C14_Witness ==
    /\ pc = "done"
    /\ \E i, j \in 1..Len(allApis) :
           /\ ~HostAllowed(allApis[i].v.url)
           /\ allApis[i].v.definition = ContentOf(allApis[i].v.url)
           /\ HostAllowed(allApis[j].v.url)
           /\ UrlHost(allApis[j].v.url) \notin allowedHosts
    /\ \E w \in SeqToSet(warnings) : w.kind = "host-not-allowed"

\* C15: a resource of a retained package with bcdc_type "geographic" and an empty
\* URL, whatever its format, gives no API entity and no link on a Component, and
\* the run does not end on it.
C15_GeographicWithoutUrlIsSkipped ==
    \A p \in 1..Len(allPackages) :
        \A r \in 1..Len(allPackages[p].resources) :
            LET resource == allPackages[p].resources[r]
            IN  (resource.bcdc_type = "geographic" /\ resource.url = "") =>
                    /\ \A i \in 1..Len(allApis) : allApis[i].v.resourceId # resource.id
                    /\ \A i \in 1..Len(allComponents) :
                           \A l \in 1..Len(allComponents[i].v.links) :
                               allComponents[i].v.links[l].title # resource.name
                    /\ ~(/\ pc = "thrown"
                         /\ pkgIdx \in 1..Len(allPackages)
                         /\ resIdx \in 1..Len(ApiResources(CurrentPackage))
                         /\ CurrentResource = resource)

\* the characters a safe name is made of
NameChars == CharsOf("abcdefghijklmnopqrstuvwxyz0123456789-")

\* at most 63 characters of [a-z0-9-], without a hyphen at either end
IsSafeText(s) ==
    /\ Len(s) <= 63
    /\ \A i \in 1..Len(s) : Ch(s, i) \in NameChars
    /\ s # "" => (Ch(s, 1) # "-" /\ Ch(s, Len(s)) # "-")

\* C16: every API name of the run, the one being chosen in the collision loop and
\* the ones recorded, un-suffixed, suffixed or suffixed with a counter, has at most
\* 63 characters of [a-z0-9-] and no hyphen at either end.
C16_ApiNamesAreSafe ==
    /\ pc = "naming" => IsSafeText(candidateName)
    /\ \A i \in 1..Len(allApis) :
           /\ IsSafeText(allApis[i].v.name)
           /\ allApis[i].k = "api:default/" \o allApis[i].v.name

\* a completed run that recorded an un-suffixed name, that name with a suffix and
\* that one with a counter
C16_Witness ==
    /\ pc = "done"
    /\ \E i, j, k \in 1..Len(allApis) :
           /\ allApis[j].v.name
                 = allApis[i].v.name \o "-"
                      \o extractDistinguishingSuffix(allApis[j].v.resourceName)
           /\ allApis[k].v.name = allApis[j].v.name \o "-1"

\* the counter values looked ahead of the current one
CounterHorizon == 20

\* C20: whenever the counter loop is entered or continued on a recorded candidate,
\* one of the counter values still to come gives a candidate identifier that is not
\* recorded, so that the loop ends.
C20_CounterLoopTerminates ==
    (pc = "naming" /\ LoopCollides(CurrentResource, allApis, candidateName)) =>
        \E n \in counter..(counter + CounterHorizon) :
            ~MapHas(allApis,
                    getApiId(CounterName(BaseName(CurrentResource,
                                                  toSafeName(CurrentPackage.name)),
                                         CurrentResource.name, n)))

\* the email hostnames found among the contacts of the retained packages
ContactHostnames ==
    {getEmailHostname(c.email).host :
        c \in {d \in RetainedContacts : getEmailHostname(d.email).found}}

GroupsWithoutParent == {i \in 1..Len(allGroups) : ~allGroups[i].v.hasParent}

\* C17, as stated: once the groups are aggregated there is one group without
\* parent, and one group more for each distinct email hostname of the contacts of
\* the retained packages, with the root group as parent: 1 plus the number of
\* distinct hostnames in all.
C17_GroupsRootPlusHostnames ==
    allGroups # << >> =>
        /\ Cardinality(GroupsWithoutParent) = 1
        /\ Len(allGroups) = 1 + Cardinality(ContactHostnames)
        /\ \A h \in ContactHostnames :
               Cardinality({i \in 1..Len(allGroups) :
                               /\ allGroups[i].v.displayName = h
                               /\ allGroups[i].v.hasParent
                               /\ allGroups[i].v.parent = "group:default/gov-bc-ca"}) = 1

\* the group identifiers of the hostnames, the root's own excepted
OtherHostGroupIds ==
    {"group:default/" \o toSafeName(h) : h \in ContactHostnames} \ {"group:default/gov-bc-ca"}

\* C17, amended: once the groups are aggregated, and in what the sink receives, the
\* groups are the root group group:default/gov-bc-ca, without parent, present also
\* when no package is retained, and one group for each distinct group identifier
\* (the safe name of the hostname) other than the root's among the email hostnames
\* of the contacts of the retained packages, each with the root as parent and a
\* hostname of that identifier as display name: 1 plus the number of those
\* identifiers in all.
C17_GroupsRootPlusOtherHostIds ==
    /\ allGroups # << >> =>
          /\ allGroups[1].k = "group:default/gov-bc-ca"
          /\ GroupsWithoutParent = {1}
          /\ {allGroups[i].k : i \in 1..Len(allGroups)}
                = {"group:default/gov-bc-ca"} \cup OtherHostGroupIds
          /\ Len(allGroups) = 1 + Cardinality(OtherHostGroupIds)
          /\ \A i \in 2..Len(allGroups) :
                 /\ allGroups[i].v.parent = "group:default/gov-bc-ca"
                 /\ allGroups[i].v.displayName \in ContactHostnames
                 /\ allGroups[i].k = "group:default/" \o toSafeName(allGroups[i].v.displayName)
                 /\ allGroups[i].k = "group:default/" \o allGroups[i].v.name
    /\ sink # << >> =>
          SelectSeq(SinkEntities, LAMBDA e : e.kind = "Group") = MapValues(allGroups)

\* a completed run whose contacts are at gov.bc.ca, example.org and example-org:
\* three hostnames, the root group and one group more
C17_Witness ==
    /\ pc = "done"
    /\ {"gov.bc.ca", "example.org", "example-org"} \subseteq ContactHostnames
    /\ Cardinality(ContactHostnames) = 3
    /\ Len(allGroups) = 2
    /\ CountOfKind(SinkEntities, "Group") = 2

\* the text handed to toSafeName
TextIn == allPackages[1].resources[1].name

\* the letters and digits of a text in their order, everything else dropped
RECURSIVE AlnumOf(_)
AlnumOf(s) ==
    IF s = "" THEN ""
    ELSE (IF Ch(s, 1) \in LowerAlnumSet THEN Ch(s, 1) ELSE "") \o AlnumOf(SubSeq(s, 2, Len(s)))

IsPrefixOf(s, t) == Len(s) <= Len(t) /\ SubSeq(t, 1, Len(s)) = s

\* the positions of a text where a letter or digit follows a character that is none
WordStarts(s) ==
    {i \in 1..Len(s) : Ch(s, i) \in LowerAlnumSet /\ (i = 1 \/ Ch(s, i - 1) \notin LowerAlnumSet)}

\* C18: whatever the text, the result of toSafeName has at most 63 characters, is
\* empty or a text of [a-z0-9-] that begins and ends with a letter or digit, has
\* one hyphen for each run of other characters between two words (never two in a
\* row), and its letters and digits are those of the lowercased text in their
\* order, all of them unless the text was cut at 63 characters;
\* "ABC def_123!!" gives "abc-def-123".
C18_SafeNameShape ==
    pc = "safe" =>
        LET lower == LowerString(TextIn)
            hyphens == {i \in 1..Len(candidateName) : Ch(candidateName, i) = "-"}
        IN  /\ Len(candidateName) <= 63
            /\ \A i \in 1..Len(candidateName) : Ch(candidateName, i) \in NameChars
            /\ candidateName # "" =>
                   /\ Ch(candidateName, 1) \in LowerAlnumSet
                   /\ Ch(candidateName, Len(candidateName)) \in LowerAlnumSet
            /\ \A i \in hyphens : i + 1 \notin hyphens
            /\ IsPrefixOf(AlnumOf(candidateName), AlnumOf(lower))
            /\ Len(candidateName) < 62 =>
                   /\ AlnumOf(candidateName) = AlnumOf(lower)
                   /\ Cardinality(hyphens) + 1 = Cardinality(WordStarts(lower))
                      \/ (candidateName = "" /\ WordStarts(lower) = {})
            /\ TextIn = "ABC def_123!!" => candidateName = "abc-def-123"

\* the example of the documentation has been made safe
C18_Witness ==
    /\ pc = "safe"
    /\ TextIn = "ABC def_123!!"
    /\ candidateName = "abc-def-123"

\* C19: making a safe name safe once more leaves it as it is, whatever text it came
\* from, the texts cut at 63 characters on or next to a separator included.
C19_SafeNameIdempotent ==
    [][pc = "safe" => candidateName' = candidateName]_vars

\* a text of more than 63 characters whose 63rd character is a separator has been
\* made safe twice: 62 characters are left
C19_Witness ==
    /\ pc = "safe-again"
    /\ Len(TextIn) > 63
    /\ Ch(TextIn, 63) \in {"-", "_", "."}
    /\ Ch(TextIn, 62) \in LowerAlnumSet
    /\ Len(candidateName) = 62

\* an API entity of that name is recorded
NameRecorded(apis, name) == \E i \in 1..Len(apis) : apis[i].v.name = name

\* the base candidate of a resource of the disambiguated case, as stated:
\* toSafeName(prefix + "-" + safe name of the owning Component)
StatedBase(resource, pkg) ==
    toSafeName((IF resource.format = "openapi-json" THEN "api" ELSE resource.format)
               \o "-" \o toSafeName(pkg.name))

\* the base cut so that it fits together with what is appended: the longest
\* beginning of the base that leaves room for the appended text and does not end
\* with a separator; when the appended text alone exceeds 63 characters nothing
\* fits, and the base loses as many characters as are in excess
FittingBase(base, appended) ==
    LET room  == 63 - Len(appended)
        limit == IF room >= Len(base) THEN Len(base)
                 ELSE IF room >= 0 THEN room
                 ELSE IF Len(base) + room >= 0 THEN Len(base) + room
                 ELSE 0
        Fit   == {n \in 0..limit : n = 0 \/ Ch(base, n) \notin {"-", "_", "."}}
    IN  SubSeq(base, 1, CHOOSE n \in Fit : \A m \in Fit : m <= n)

\* the candidates of a resource in the order they are tried: number 0 carries the
\* distinguishing suffix of the raw name, number k >= 1 that suffix and the counter k
StatedCandidate(base, rawName, k) ==
    LET appended == "-" \o extractDistinguishingSuffix(rawName)
                    \o (IF k = 0 THEN "" ELSE "-" \o ToDecimal(k))
    IN  toSafeName(FittingBase(base, appended) \o appended)

\* C21: for a resource of the disambiguated case whose base candidate is recorded
\* already, the first candidate is toSafeName(truncatedBase + "-" + suffix) with the
\* suffix of its own raw name; the counter loop goes on only while the candidate is
\* recorded and tries the counters 1, 2, ... in order; the name the API entity is
\* recorded under is the first of these candidates that is not recorded;
\* "Roads Service 2023" on the recorded base "api-roads-dataset" gets
\* "api-roads-dataset-2023".
C21_SuffixThenCounters ==
    [][LET resource == CurrentResource
           base     == StatedBase(resource, CurrentPackage)
           Cand(k)  == StatedCandidate(base, resource.name, k)
       IN  /\ (pc = "api" /\ pc' = "naming" /\ IsDisambiguated(resource)
               /\ NameRecorded(allApis, base))
              => candidateName' = Cand(0) /\ counter' = 1
           /\ (pc = "naming" /\ pc' = "naming")
              => /\ NameRecorded(allApis, candidateName)
                 /\ candidateName' = Cand(counter)
                 /\ counter' = counter + 1
           /\ (ApiRecorded /\ IsDisambiguated(resource) /\ NameRecorded(allApis, base))
              => /\ Len(allApis') = Len(allApis) + 1
                 /\ allApis'[Len(allApis')].v.resourceId = resource.id
                 /\ \E k \in 0..MaxCounter :
                        /\ allApis'[Len(allApis')].v.name = Cand(k)
                        /\ ~NameRecorded(allApis, Cand(k))
                        /\ \A j \in 0..(k - 1) : NameRecorded(allApis, Cand(j))
                 /\ (resource.name = "Roads Service 2023" /\ base = "api-roads-dataset"
                     /\ ~NameRecorded(allApis, "api-roads-dataset-2023"))
                    => allApis'[Len(allApis')].v.name = "api-roads-dataset-2023"
      ]_vars

\* the name recorded for the resource of that id
NameOfResource(apis, id) ==
    {apis[i].v.name : i \in {j \in 1..Len(apis) : apis[j].v.resourceId = id}}

\* a completed run in which the second OpenAPI service of roads-dataset was named
\* with its suffix, the third map service of that package with suffix and counter 1,
\* and none of the two bases went to these resources
C21_Witness ==
    /\ pc = "done"
    /\ NameOfResource(allApis, "r4") = {"api-roads-dataset"}
    /\ NameOfResource(allApis, "r18") = {"api-roads-dataset-2023"}
    /\ NameOfResource(allApis, "r2") = {"wms-roads-dataset"}
    /\ NameOfResource(allApis, "r5") = {"wms-roads-dataset-2023"}
    /\ NameOfResource(allApis, "r6") = {"wms-roads-dataset-2023-1"}

\* the resources of the disambiguated case of the retained packages, as positions
\* << package, API resource >> in insertion order
NamedPositions ==
    UNION {{<< i, j >> : j \in {k \in 1..Len(ApiResources(allPackages[i])) :
                                    IsDisambiguated(ApiResources(allPackages[i])[k])}} :
           i \in 1..Len(allPackages)}

BaseAt(q) == StatedBase(ApiResources(allPackages[q[1]])[q[2]], allPackages[q[1]])

Earlier(p, q) == p[1] < q[1] \/ (p[1] = q[1] /\ p[2] < q[2])

\* C22, as stated: in a completed run, of the resources that share a base
\* candidate the first in insertion order is recorded under the base itself and
\* every later one under another name.
C22_FirstOfBaseUnsuffixed ==
    pc = "done" =>
        \A q \in NamedPositions :
            LET resource == ApiResources(allPackages[q[1]])[q[2]]
                first    == \A p \in NamedPositions : BaseAt(p) = BaseAt(q) => ~Earlier(p, q)
                Names    == {allApis[i].v.name :
                                i \in {k \in 1..Len(allApis) :
                                          /\ allApis[k].v.resourceId = resource.id
                                          /\ allApis[k].v.packageId = allPackages[q[1]].id}}
            IN  IF first THEN BaseAt(q) \in Names
                ELSE \E n \in Names : n # BaseAt(q)

\* the condition under which a resource becomes an API entity, as stated
StatedApiCondition(resource) ==
    \/ (resource.bcdc_type = "webservice" /\ resource.format # "kml")
    \/ resource.format = "arcgis_rest"
    \/ resource.format = "openapi-json"

\* the API entities among the entities, of the resource of that package
ApiEntitiesOf(entities, resource, pkg) ==
    {i \in 1..Len(entities) : /\ entities[i].kind = "API"
                              /\ entities[i].resourceId = resource.id
                              /\ entities[i].packageId = pkg.id}

\* the links of the resource on the Components of its package among the entities,
\* as pairs << entity, link >>
ComponentLinksOf(entities, resource, pkg) ==
    UNION {{<< i, l >> : l \in {m \in 1..Len(entities[i].links) :
                                   /\ entities[i].links[m].icon = "catalog"
                                   /\ entities[i].links[m].url = resource.url
                                   /\ entities[i].links[m].title = resource.name}} :
           i \in {k \in 1..Len(entities) : /\ entities[k].kind = "Component"
                                           /\ entities[k].packageId = pkg.id}}

\* C23, as stated: in what the sink receives, every resource of a retained
\* package is an API entity exactly when it is a web service other than kml or has
\* the format arcgis_rest or openapi-json; else, when not geographic and with a
\* URL, it is exactly one link of the Component of its package; else nothing; and
\* never both.
C23_ResourceIsApiOrLinkOrNothing ==
    pc = "done" =>
        \A i \in 1..Len(allPackages) :
            \A k \in 1..Len(allPackages[i].resources) :
                LET pkg      == allPackages[i]
                    resource == pkg.resources[k]
                    apis     == ApiEntitiesOf(SinkEntities, resource, pkg)
                    links    == ComponentLinksOf(SinkEntities, resource, pkg)
                IN  /\ StatedApiCondition(resource) <=> apis # {}
                    /\ IF StatedApiCondition(resource) THEN links = {}
                       ELSE IF resource.bcdc_type # "geographic" /\ resource.url # ""
                            THEN Cardinality(links) = 1
                            ELSE links = {}

\* the retained packages are different packages: no id and no name occurs twice
DistinctPackages ==
    \A i, j \in 1..Len(allPackages) :
        i # j => /\ allPackages[i].id # allPackages[j].id
                 /\ allPackages[i].name # allPackages[j].name

\* C24, as stated: in what the sink receives of a run over different packages there
\* are as many Component entities as retained packages, and each retained package
\* has its Component among them.
C24_OneComponentPerPackage ==
    (pc = "done" /\ DistinctPackages) =>
        /\ CountOfKind(SinkEntities, "Component") = Len(allPackages)
        /\ \A i \in 1..Len(allPackages) :
               \E k \in 1..Len(SinkEntities) :
                   /\ SinkEntities[k].kind = "Component"
                   /\ SinkEntities[k].packageId = allPackages[i].id
                   /\ SinkEntities[k].packageName = allPackages[i].name

\* the name holds no year, no version and no number of two or more digits, as the
\* expressions of extractDistinguishingSuffix find them
NoNumberPattern(name) ==
    \A i \in 1..Len(name) :
        /\ ~YearAt(name, i)
        /\ VersionDigitsStart(name, i) = 0
        /\ ~(Boundary(name, i) /\ DigitsAt(name, i, 2))

\* the words of the normalized name that are not on the stop list
RemainingWords(name) ==
    SelectSeq(SplitDash(toSafeName(name)),
              LAMBDA w : w # "" /\ w \notin {"service", "request", "getcapabilities", "wms",
                                             "kml", "arcgis", "rest", "online"})

\* the beginning of at most 10 characters of the last segment of a text cut at "-"
StartOfLastSegment(s) ==
    LET Starts == {1} \cup {i + 1 : i \in {k \in 1..Len(s) : Ch(s, k) = "-"}}
        from   == CHOOSE i \in Starts : \A k \in Starts : k <= i
    IN  SubSeq(s, from, IF Len(s) - from + 1 > 10 THEN from + 9 ELSE Len(s))

\* the last 10 characters of a text, or all of it
LastTen(s) == SubSeq(s, IF Len(s) > 10 THEN Len(s) - 9 ELSE 1, Len(s))

\* the suffix from the last two remaining words or the single one
SuffixOfWords(words) ==
    IF Len(words) >= 2 THEN words[Len(words) - 1] \o "-" \o words[Len(words)] ELSE words[1]

ProvidedAt(entities, id) ==
    UNION {{<< i, l >> : l \in {m \in 1..Len(entities[i].providesApis) :
                                   entities[i].providesApis[m] = id}} :
           i \in {k \in 1..Len(entities) : entities[k].kind = "Component"}}

\* C26, as stated: in what the sink receives, the identifier of every API entity
\* stands at exactly one place of the providesApis lists, in the list of the
\* Component of the package that owns the resource, and every identifier of a
\* providesApis list is that of an API entity received.
C26_ProvidesApisMatchesApis ==
    pc = "done" =>
        /\ \A a \in 1..Len(SinkEntities) :
               SinkEntities[a].kind = "API" =>
                   LET places == ProvidedAt(SinkEntities, "api:default/" \o SinkEntities[a].name)
                   IN  /\ Cardinality(places) = 1
                       /\ \A q \in places : SinkEntities[q[1]].packageId = SinkEntities[a].packageId
        /\ \A c \in 1..Len(SinkEntities) :
               SinkEntities[c].kind = "Component" =>
                   \A l \in 1..Len(SinkEntities[c].providesApis) :
                       \E a \in 1..Len(SinkEntities) :
                           /\ SinkEntities[a].kind = "API"
                           /\ "api:default/" \o SinkEntities[a].name = SinkEntities[c].providesApis[l]

\* the identifiers of the System entities among the entities
SystemIdsOf(entities) ==
    {"system:default/" \o entities[i].name :
        i \in {k \in 1..Len(entities) : entities[k].kind = "System"}}

\* C27, as stated: in what the sink receives, the system of every Component and of
\* every API entity is the identifier of a System entity received.
C27_SystemReferencesResolve ==
    pc = "done" =>
        \A i \in 1..Len(SinkEntities) :
            SinkEntities[i].kind \in {"Component", "API"} =>
                SinkEntities[i].system \in SystemIdsOf(SinkEntities)

\* the text is empty or has no "<scheme>://<host>" at its beginning
NotAUrl(url) ==
    \/ url = ""
    \/ \A i \in 2..(Len(url) - 3) : SubSeq(url, i, i + 2) # "://"

\* the API-bound resources of the retained packages whose URL is none
BadUrlResources ==
    UNION {{r \in SeqToSet(allPackages[i].resources) :
               StatedApiCondition(r) /\ NotAUrl(r.url)} : i \in 1..Len(allPackages)}

\* C28: a run over a retained package with an API-bound resource whose URL is empty
\* or no URL never calls the sink; when the run leaves the naming of such a resource
\* it does so by throwing, no API entity is recorded for it, and a run that has
\* thrown stays so, its sink empty.
C28_BadUrlEndsRunWithoutMutation ==
    /\ [](BadUrlResources # {} => sink = << >>)
    /\ [](pc = "thrown" => sink = << >>)
    /\ [][/\ (pc = "naming" /\ NotAUrl(CurrentResource.url) /\ pc' # "naming")
             => (pc' = "thrown" /\ allApis' = allApis /\ sink' = << >>)
          /\ pc = "thrown" => pc' = "thrown"]_vars

\* the run has thrown at the web service without scheme of the second package,
\* after the Component and the API entities of a first, valid package were built;
\* nothing went to the sink
C28_Witness ==
    /\ pc = "thrown"
    /\ Len(allPackages) = 2
    /\ pkgIdx = 2
    /\ CurrentResource.url = "maps.gov.bc.ca/trails"
    /\ BadUrlResources = {CurrentResource}
    /\ allApis # << >>
    /\ Len(allComponents) = 2
    /\ sink = << >>

====
